---------------------------- MODULE Spec2Model ----------------------------
(***************************************************************************)
(* A model of the velodyne crate's VLP-16 packet decoder (src/vlp_16.rs):  *)
(* Packet::new and its two paths, the accessors, and Packet::points with   *)
(* the azimuth model.  Payloads are byte sequences; f32 values are         *)
(* modelled bit-exactly as sign / 24-bit mantissa / exponent triples with  *)
(* round-to-nearest-even arithmetic, chrono Durations as secs + nanos.     *)
(***************************************************************************)
EXTENDS Integers, Sequences, FiniteSets, TLC

(***************************************************************************)
(* IEEE-754 binary32 arithmetic.  A value is [sg, m, e] and stands for     *)
(* (-1)^sg * m * 2^e, with m = 0 (and e = 0) for zero and                  *)
(* 2^23 <= m < 2^24 otherwise.  Every value the decoder handles is far     *)
(* from the subnormal and overflow ranges, which are not modelled.         *)
(***************************************************************************)
TwoP12 == 2 ^ 12
TwoP22 == 2 ^ 22
TwoP23 == 2 ^ 23
TwoP24 == 2 ^ 24

F32Zero == [sg |-> 0, m |-> 0, e |-> 0]

F32IsZero(x) == x.m = 0

\* Round-to-nearest-even of (m + fraction) * 2^e, where the fraction is
\* given by its first bit rb and whether any later bit is set (sticky).
F32Pack(sg, m, e, rb, sticky) ==
    IF rb = 1 /\ (sticky \/ m % 2 = 1)
    THEN IF m + 1 = TwoP24 THEN [sg |-> sg, m |-> TwoP23, e |-> e + 1]
         ELSE [sg |-> sg, m |-> m + 1, e |-> e]
    ELSE [sg |-> sg, m |-> m, e |-> e]

RECURSIVE F32NormInt(_, _)
\* n * 2^e with 0 < n < 2^24, as a normalised mantissa and exponent.
F32NormInt(n, e) ==
    IF n >= TwoP23 THEN <<n, e>> ELSE F32NormInt(2 * n, e - 1)

\* `n as f32` for an integer 0 <= n < 2^24 (exact).
F32OfPair(sg, p) == [sg |-> sg, m |-> p[1], e |-> p[2]]

F32FromInt(n) == IF n = 0 THEN F32Zero ELSE F32OfPair(0, F32NormInt(n, 0))

RECURSIVE F32QuotBits(_, _, _, _)
\* Long division: k more quotient bits of r / den appended to q (r < den).
F32QuotBits(q, r, den, k) ==
    IF k = 0 THEN <<q, r>>
    ELSE IF 2 * r >= den THEN F32QuotBits(2 * q + 1, 2 * r - den, den, k - 1)
         ELSE F32QuotBits(2 * q, 2 * r, den, k - 1)

\* The quotient q and remainder r of a 24-bit long division, rounded.
F32PackQuot(sg, qr, den, e) ==
    IF 2 * qr[2] >= den THEN F32Pack(sg, qr[1], e, 1, 2 * qr[2] # den)
    ELSE F32Pack(sg, qr[1], e, 0, qr[2] # 0)

RECURSIVE F32Ratio(_, _, _, _)
\* The f32 nearest to (-1)^sg * (num / den) * 2^e, for num > 0, den > 0.
F32Ratio(sg, num, den, e) ==
    IF num >= 2 * den THEN F32Ratio(sg, num, 2 * den, e + 1)
    ELSE IF num < den THEN F32Ratio(sg, 2 * num, den, e - 1)
    ELSE F32PackQuot(sg, F32QuotBits(1, num - den, den, 23), den, e - 23)

\* An f32 literal written as the decimal fraction num / den.
F32Lit(num, den) == F32Ratio(0, num, den, 0)

\* a / b on f32 (b nonzero).
F32Div(a, b) ==
    IF a.m = 0 THEN [sg |-> (a.sg + b.sg) % 2, m |-> 0, e |-> 0]
    ELSE F32Ratio((a.sg + b.sg) % 2, a.m, b.m, a.e - b.e)

\* hi * 2^24 + lo, a product of two mantissas, times 2^e.
F32PackWide(sg, hi, lo, e) ==
    IF hi >= TwoP23
    THEN F32Pack(sg, hi, e + 24, lo \div TwoP23, lo % TwoP23 # 0)
    ELSE F32Pack(sg, 2 * hi + (lo \div TwoP23), e + 23,
                 (lo \div TwoP22) % 2, lo % TwoP22 # 0)

F32MulSum(sg, e, hh, mid, ll) ==
    F32PackWide(sg,
                hh + (mid \div TwoP12) + ((ll + (mid % TwoP12) * TwoP12) \div TwoP24),
                (ll + (mid % TwoP12) * TwoP12) % TwoP24, e)

\* (a1 * 2^12 + a0) * (b1 * 2^12 + b0) * 2^e
F32MulLimbs(sg, e, a1, a0, b1, b0) ==
    F32MulSum(sg, e, a1 * b1, a1 * b0 + a0 * b1, a0 * b0)

\* a * b on f32: the 48-bit product of the mantissas in 12-bit limbs.
F32Mul(a, b) ==
    IF a.m = 0 \/ b.m = 0 THEN [sg |-> (a.sg + b.sg) % 2, m |-> 0, e |-> 0]
    ELSE F32MulLimbs((a.sg + b.sg) % 2, a.e + b.e,
                     a.m \div TwoP12, a.m % TwoP12, b.m \div TwoP12, b.m % TwoP12)

\* a < b on f32 (-0.0 and +0.0 compare equal).
F32Lt(a, b) ==
    LET magLt(x, y) == IF x.m = 0 THEN y.m # 0
                       ELSE y.m # 0 /\ (x.e < y.e \/ (x.e = y.e /\ x.m < y.m))
    IN  CASE a.sg = 0 /\ b.sg = 0 -> magLt(a, b)
          [] a.sg = 1 /\ b.sg = 1 -> magLt(b, a)
          [] a.sg = 1 /\ b.sg = 0 -> a.m # 0 \/ b.m # 0
          [] OTHER -> FALSE

\* a == b on f32.
F32Eq(a, b) == (a.m = 0 /\ b.m = 0) \/ a = b

\* f32::round: the nearest integer, halves away from zero, as an integer
\* magnitude (|x| < 2^24).
F32RoundMag(x) ==
    IF x.m = 0 THEN 0
    ELSE IF x.e >= 0 THEN x.m * 2 ^ x.e
    ELSE IF x.e < -24 THEN 0
    ELSE (x.m \div 2 ^ (-x.e)) +
         (IF 2 * (x.m % 2 ^ (-x.e)) >= 2 ^ (-x.e) THEN 1 ELSE 0)

\* n * 2^e with its last k bits rounded away.
F32PackShift(sg, n, e, k) ==
    F32Pack(sg, n \div 2 ^ k, e + k,
            IF 2 * (n % 2 ^ k) >= 2 ^ k THEN 1 ELSE 0,
            (2 * (n % 2 ^ k)) % 2 ^ k # 0)

RECURSIVE F32NormWide(_, _, _)
\* (-1)^sg * n * 2^e for an integer 0 < n < 2^29, rounded to an f32.
F32NormWide(sg, n, e) ==
    IF n < TwoP23 THEN F32NormWide(sg, 2 * n, e - 1)
    ELSE IF n < TwoP24 THEN [sg |-> sg, m |-> n, e |-> e]
    ELSE F32PackShift(sg, n, e,
             CHOOSE j \in 1..6 : n \div 2 ^ j < TwoP24 /\ n \div 2 ^ j >= TwoP23)

\* y shifted right by d bits under three guard bits, the last sticky.
F32Align(y, d) ==
    IF d >= 27 THEN 1
    ELSE ((8 * y.m) \div 2 ^ d) +
         (IF (8 * y.m) % 2 ^ d # 0 /\ ((8 * y.m) \div 2 ^ d) % 2 = 0
          THEN 1 ELSE 0)

F32OfSum(sg, S, e) == IF S = 0 THEN F32Zero ELSE F32NormWide(sg, S, e)

\* x + y for |x| >= |y| > 0.
F32AddOrdered(x, y) ==
    IF x.sg = y.sg
    THEN F32OfSum(x.sg, 8 * x.m + F32Align(y, x.e - y.e), x.e - 3)
    ELSE F32OfSum(x.sg, 8 * x.m - F32Align(y, x.e - y.e), x.e - 3)

\* a + b on f32: the smaller operand is shifted right under three guard
\* bits, the last of them sticky.
F32Add(a, b) ==
    IF a.m = 0 /\ b.m = 0
    THEN [sg |-> IF a.sg = 1 /\ b.sg = 1 THEN 1 ELSE 0, m |-> 0, e |-> 0]
    ELSE IF a.m = 0 THEN b
    ELSE IF b.m = 0 THEN a
    ELSE IF a.e > b.e \/ (a.e = b.e /\ a.m >= b.m) THEN F32AddOrdered(a, b)
    ELSE F32AddOrdered(b, a)

F32Neg(a) == [a EXCEPT !.sg = 1 - a.sg]

\* a - b on f32.
F32Sub(a, b) == F32Add(a, F32Neg(b))

\* f32::round as an f32.
F32Signed(sg, n) ==
    IF n = 0 THEN [sg |-> sg, m |-> 0, e |-> 0]
    ELSE F32OfPair(sg, F32NormInt(n, 0))

F32Round(x) == F32Signed(x.sg, F32RoundMag(x))

(***************************************************************************)
(* Constants of src/vlp_16.rs.                                             *)
(***************************************************************************)
AZIMUTH_SCALE_FACTOR == F32FromInt(100)
DISTANCE_SCALE_FACTOR == F32Lit(2, 1000)
NUM_LASERS == 16
NUM_DATA_BLOCKS == 12
PACKET_HEADER_LEN == 42
START_IDENTIFIER == 61183
FIRING_CYCLE_RATE_US == F32Lit(55296, 1000)
FIRING_RATE_US == F32Lit(2304, 1000)

\* b"$GPRMC"
GPRMC == <<36, 71, 80, 82, 77, 67>>

(***************************************************************************)
(* Results and errors (src/lib.rs).                                        *)
(***************************************************************************)
Ok(v) == [tag |-> "Ok", val |-> v]
Err(e) == [tag |-> "Err", err |-> e]
\* A panic (an out-of-range slice index, unimplemented!()): no value at all.
Panic == [tag |-> "Panic"]
\* Before the call.
NotCalled == [tag |-> "NotCalled"]

InvalidSensor(n) == [kind |-> "InvalidSensor", n |-> n]
InvalidStartIdentifier(n) == [kind |-> "InvalidStartIdentifier", n |-> n]
InvalidReturnMode(n) == [kind |-> "InvalidReturnMode", n |-> n]
\* Error::Io(std::io::Error) with the io::ErrorKind k.
Io(k) == [kind |-> "Io", io |-> k]

(***************************************************************************)
(* std::io::Cursor over a byte slice, and the byteorder reads the decoder  *)
(* uses.  A read returns the Result; the cursor then stands `n` further.   *)
(***************************************************************************)
Cursor(buf) == [buf |-> buf, pos |-> 0]

Advance(cur, n) == [cur EXCEPT !.pos = cur.pos + n]

\* read_exact of n bytes fails as a whole when fewer than n remain.
CanRead(cur, n) == cur.pos + n <= Len(cur.buf)

read_u8(cur) ==
    IF ~CanRead(cur, 1) THEN Err(Io("UnexpectedEof"))
    ELSE Ok(cur.buf[cur.pos + 1])

read_u16_LittleEndian(cur) ==
    IF ~CanRead(cur, 2) THEN Err(Io("UnexpectedEof"))
    ELSE Ok(cur.buf[cur.pos + 1] + 256 * cur.buf[cur.pos + 2])

\* A u32 does not fit the model checker's integers: it is kept as two
\* 16-bit halves.
read_u32_LittleEndian(cur) ==
    IF ~CanRead(cur, 4) THEN Err(Io("UnexpectedEof"))
    ELSE Ok([lo |-> cur.buf[cur.pos + 1] + 256 * cur.buf[cur.pos + 2],
             hi |-> cur.buf[cur.pos + 3] + 256 * cur.buf[cur.pos + 4]])

\* chrono::Duration::microseconds(n as i64) for a u32 n: chrono keeps
\* whole seconds and the nanoseconds within the second.
Duration_microseconds(n) ==
    \* n = 16 * (n.hi * 4096) + n.lo
    [secs |-> 16 * ((n.hi * 4096) \div 1000000)
              + (16 * ((n.hi * 4096) % 1000000) + n.lo) \div 1000000,
     nanos |-> ((16 * ((n.hi * 4096) % 1000000) + n.lo) % 1000000) * 1000]

RECURSIVE Utf8Valid(_, _)
\* std::str::from_utf8 accepts buf from (1-based) index i on.
Utf8Valid(buf, i) ==
    LET n == Len(buf)
        b0 == buf[i]
        cont(k) == i + k <= n /\ buf[i + k] >= 128 /\ buf[i + k] <= 191
        in1(lo, hi) == i + 1 <= n /\ buf[i + 1] >= lo /\ buf[i + 1] <= hi
    IN  IF i > n THEN TRUE
        ELSE IF b0 < 128 THEN Utf8Valid(buf, i + 1)
        ELSE IF b0 >= 194 /\ b0 <= 223 THEN cont(1) /\ Utf8Valid(buf, i + 2)
        ELSE IF b0 = 224 THEN in1(160, 191) /\ cont(2) /\ Utf8Valid(buf, i + 3)
        ELSE IF (b0 >= 225 /\ b0 <= 236) \/ b0 = 238 \/ b0 = 239
             THEN cont(1) /\ cont(2) /\ Utf8Valid(buf, i + 3)
        ELSE IF b0 = 237 THEN in1(128, 159) /\ cont(2) /\ Utf8Valid(buf, i + 3)
        ELSE IF b0 = 240
             THEN in1(144, 191) /\ cont(2) /\ cont(3) /\ Utf8Valid(buf, i + 4)
        ELSE IF b0 >= 241 /\ b0 <= 243
             THEN cont(1) /\ cont(2) /\ cont(3) /\ Utf8Valid(buf, i + 4)
        ELSE IF b0 = 244
             THEN in1(128, 143) /\ cont(2) /\ cont(3) /\ Utf8Valid(buf, i + 4)
        ELSE FALSE

\* cursor.take(limit).read_to_string(..): every byte left, at most limit of
\* them, kept as they are; an error when they are not UTF-8.
ReadString(data) ==
    IF Utf8Valid(data, 1) THEN Ok(data) ELSE Err(Io("InvalidData"))

Min(a, b) == IF a < b THEN a ELSE b

take_read_to_string(cur, limit) ==
    ReadString(SubSeq(cur.buf, Min(cur.pos, Len(cur.buf)) + 1,
                      Min(Min(cur.pos, Len(cur.buf)) + limit, Len(cur.buf))))

(***************************************************************************)
(* The decoder.                                                            *)
(***************************************************************************)
ReturnMode_from_u8(n) ==
    CASE n = 55 -> Ok("StrongestReturn")
      [] n = 56 -> Ok("LastReturn")
      [] n = 57 -> Ok("DualReturn")
      [] OTHER -> Err(InvalidReturnMode(n))

\* A variant that takes an unknown sensor code for a VLP-16.
Sensor_from_u8_defaulting(n) ==
    IF n = 33 THEN Ok("HDL_32E") ELSE Ok("VLP_16")

Sensor_from_u8(n) ==
    CASE n = 33 -> Ok("HDL_32E")
      [] n = 34 -> Ok("VLP_16")
      [] OTHER -> Err(InvalidSensor(n))

\* DataRecord { return_distance, calibrated_reflectivity } from the two
\* reads d and r.
DataRecord_of(d, r) ==
    IF d.tag = "Err" THEN d
    ELSE IF r.tag = "Err" THEN r
    ELSE Ok([return_distance |->
                 F32Mul(F32FromInt(d.val), DISTANCE_SCALE_FACTOR),
             calibrated_reflectivity |-> r.val])

DataRecord_read_from(cur) ==
    DataRecord_of(read_u16_LittleEndian(cur), read_u8(Advance(cur, 2)))

\* The first record read that failed, in reading order.
FirstErr(recs, bad) ==
    recs[(CHOOSE k \in bad : \A j \in bad : k <= j) \div NUM_LASERS]
        [(CHOOSE k \in bad : \A j \in bad : k <= j) % NUM_LASERS]

\* A variant that does not compare the start identifier.
DataBlock_of_unchecked(cur, sid, az, recs) ==
    IF sid.tag = "Err" THEN sid
    ELSE IF az.tag = "Err" THEN az
    ELSE IF \E s \in 0..1, c \in 0..(NUM_LASERS - 1) : recs[s][c].tag = "Err"
         THEN FirstErr(recs, {k \in 0..(2 * NUM_LASERS - 1) :
                                 recs[k \div NUM_LASERS][k % NUM_LASERS].tag = "Err"})
    ELSE [tag |-> "Ok",
          val |-> [azimuth |->
                       F32Div(F32FromInt(az.val), AZIMUTH_SCALE_FACTOR),
                   data_records |->
                       [s \in 0..1 |->
                          [c \in 0..(NUM_LASERS - 1) |-> recs[s][c].val]]],
          cur |-> Advance(cur, 4 + 3 * 2 * NUM_LASERS)]

\* DataBlock::read_from after its reads: the start identifier sid, the
\* azimuth az and the 2 x 16 records recs, read in this order; cur is the
\* cursor before the block.
DataBlock_of(cur, sid, az, recs) ==
    IF sid.tag = "Err" THEN sid
    ELSE IF sid.val # START_IDENTIFIER
         THEN Err(InvalidStartIdentifier(sid.val))
    ELSE IF az.tag = "Err" THEN az
    ELSE IF \E s \in 0..1, c \in 0..(NUM_LASERS - 1) : recs[s][c].tag = "Err"
         THEN FirstErr(recs, {k \in 0..(2 * NUM_LASERS - 1) :
                                 recs[k \div NUM_LASERS][k % NUM_LASERS].tag = "Err"})
    ELSE [tag |-> "Ok",
          val |-> [azimuth |->
                       F32Div(F32FromInt(az.val), AZIMUTH_SCALE_FACTOR),
                   data_records |->
                       [s \in 0..1 |->
                          [c \in 0..(NUM_LASERS - 1) |-> recs[s][c].val]]],
          cur |-> Advance(cur, 4 + 3 * 2 * NUM_LASERS)]

\* A variant that reads the two firing sequences of a block interleaved,
\* channel by channel.
DataBlock_read_from_interleaved(cur) ==
    DataBlock_of(cur,
        read_u16_LittleEndian(cur),
        read_u16_LittleEndian(Advance(cur, 2)),
        [s \in 0..1 |->
           [c \in 0..(NUM_LASERS - 1) |->
              DataRecord_read_from(Advance(cur, 4 + 3 * (2 * c + s)))]])

\* The result, and on success the cursor after the block.
DataBlock_read_from(cur) ==
    DataBlock_of(cur,
        read_u16_LittleEndian(cur),
        read_u16_LittleEndian(Advance(cur, 2)),
        [s \in 0..1 |->
           [c \in 0..(NUM_LASERS - 1) |->
              DataRecord_read_from(Advance(cur, 4 + 3 * (NUM_LASERS * s + c)))]])

RECURSIVE ReadDataBlocks(_, _, _)
ReadDataBlocksStep(r, b, acc) ==
    IF r.tag = "Err" THEN r
    ELSE ReadDataBlocks(r.cur, b + 1, acc @@ (b :> r.val))

\* The loop of new_data: block b onwards, blocks read so far in acc.
ReadDataBlocks(cur, b, acc) ==
    IF b = NUM_DATA_BLOCKS THEN [tag |-> "Ok", val |-> acc, cur |-> cur]
    ELSE ReadDataBlocksStep(DataBlock_read_from(cur), b, acc)

\* Packet::Data from the results of new_data's steps, in their order.
Data_of(blocks, ts, rm, sn) ==
    IF blocks.tag = "Err" THEN blocks
    ELSE IF ts.tag = "Err" THEN ts
    ELSE IF rm.tag = "Err" THEN rm
    ELSE IF ReturnMode_from_u8(rm.val).tag = "Err" THEN ReturnMode_from_u8(rm.val)
    ELSE IF sn.tag = "Err" THEN sn
    ELSE IF Sensor_from_u8(sn.val).tag = "Err" THEN Sensor_from_u8(sn.val)
    ELSE Ok([kind |-> "Data",
             data_blocks |-> blocks.val,
             timestamp |-> Duration_microseconds(ts.val),
             return_mode |-> ReturnMode_from_u8(rm.val).val,
             sensor |-> Sensor_from_u8(sn.val).val])

\* new_data once the blocks are read: the timestamp and the factory bytes
\* follow them.
new_data_tail(blocks) ==
    IF blocks.tag = "Err" THEN blocks
    ELSE Data_of(blocks,
                 read_u32_LittleEndian(blocks.cur),
                 read_u8(Advance(blocks.cur, 4)),
                 read_u8(Advance(blocks.cur, 5)))

new_data(bytes) ==
    new_data_tail(
        ReadDataBlocks(Cursor(SubSeq(bytes, PACKET_HEADER_LEN + 1, Len(bytes))),
                       0, <<>>))

\* Packet::Position from the results of new_position's two reads.
Position_of(ts, nmea) ==
    IF ts.tag = "Err" THEN ts
    ELSE IF nmea.tag = "Err" THEN nmea
    ELSE Ok([kind |-> "Position",
             timestamp |-> Duration_microseconds(ts.val),
             nmea |-> nmea.val])

new_position_at(cursor) ==
    Position_of(read_u32_LittleEndian(cursor),
                take_read_to_string([cursor EXCEPT !.pos = 8], 72))

new_position(bytes) ==
    new_position_at(
        Cursor(SubSeq(bytes, PACKET_HEADER_LEN + 198 + 1, Len(bytes))))

\* The classifier of Packet::from_pcap_packet in packet.rs, a file lib.rs
\* does not declare: a position packet must also have bytes 42..240 zero.
Packet_new_unused_zero(bytes) ==
    IF Len(bytes) < 254 THEN Panic
    ELSE IF /\ \A i \in (PACKET_HEADER_LEN + 1)..240 : bytes[i] = 0
            /\ SubSeq(bytes, 249, 254) = GPRMC
         THEN new_position(bytes)
    ELSE new_data(bytes)

\* Packet::new.  &bytes[248..254] panics when the payload has under 254
\* bytes.
Packet_new(bytes) ==
    IF Len(bytes) < 254 THEN Panic
    ELSE IF SubSeq(bytes, 249, 254) = GPRMC THEN new_position(bytes)
    ELSE new_data(bytes)

\* Packet::from_pcap_packet of packet.rs.  packet.data[42..240] panics under
\* 240 bytes, and &packet.data[248..254], reached when those bytes are all
\* zero, under 254; the two decoders read as those of vlp_16.rs do.
from_pcap_packet(data) ==
    IF Len(data) < PACKET_HEADER_LEN + 198 THEN Panic
    ELSE IF \A i \in (PACKET_HEADER_LEN + 1)..(PACKET_HEADER_LEN + 198) : data[i] = 0
         THEN IF Len(data) < PACKET_HEADER_LEN + 212 THEN Panic
              ELSE IF SubSeq(data, PACKET_HEADER_LEN + 207, PACKET_HEADER_LEN + 212)
                          = GPRMC
                   THEN new_position(data)
              ELSE new_data(data)
    ELSE new_data(data)

is_data(packet) == packet.kind = "Data"

is_position(packet) == ~is_data(packet)

Some(v) == [tag |-> "Some", val |-> v]
None == [tag |-> "None"]

nmea(packet) == IF packet.kind = "Data" THEN None ELSE Some(packet.nmea)

data_blocks(packet) ==
    IF packet.kind = "Data" THEN Some(packet.data_blocks) ELSE None

timestamp(packet) == packet.timestamp

return_mode(packet) ==
    IF packet.kind = "Data" THEN Some(packet.return_mode) ELSE None

sensor(packet) == IF packet.kind = "Data" THEN Some(packet.sensor) ELSE None

\* A variant with the angles in rising order.
vertical_angle_sorted(channel) ==
    F32Add(F32Neg(F32FromInt(15)), F32FromInt(2 * channel))

\* vertical_angle: the assert holds for every channel points() passes.
vertical_angle(channel) ==
    IF channel % 2 = 1 THEN F32FromInt(channel)
    ELSE F32Add(F32Neg(F32FromInt(15)), F32FromInt(channel))

\* The end of predict: an azimuth above 360 comes back by one turn.
predict_wrap(azimuth) ==
    IF F32Lt(F32FromInt(360), azimuth)
    THEN F32Sub(azimuth, F32FromInt(360))
    ELSE azimuth

\* predict from the base azimuth and the rate on.
predict_at(base_azimuth, rate, sequence, channel) ==
    predict_wrap(
        F32Div(
            F32Round(
                F32Mul(
                    F32Add(F32Add(base_azimuth,
                                  F32Mul(F32Mul(rate, F32FromInt(sequence)),
                                         FIRING_CYCLE_RATE_US)),
                           F32Mul(F32Mul(rate, F32FromInt(channel)),
                                  FIRING_RATE_US)),
                    F32FromInt(100))),
            F32FromInt(100)))

\* The rate of the first eleven blocks, from the next block's azimuth.
rate_next(base_azimuth, other_azimuth) ==
    F32Div(F32Div(F32Sub(other_azimuth, base_azimuth), FIRING_CYCLE_RATE_US),
           F32FromInt(2))

\* The last block: its base azimuth (lifted by a turn when the block before
\* is ahead of it) and the rate from the block before.
predict_last(base_azimuth, other_azimuth, sequence, channel) ==
    predict_at(base_azimuth,
               F32Div(F32Div(F32Sub(base_azimuth, other_azimuth),
                             FIRING_CYCLE_RATE_US),
                      F32FromInt(2)),
               sequence, channel)

\* AzimuthModel::predict over the model's data_blocks.
predict(blocks, data_block, sequence, channel) ==
    IF data_block < NUM_DATA_BLOCKS - 1
    THEN predict_at(blocks[data_block].azimuth,
                    rate_next(blocks[data_block].azimuth,
                              IF F32Lt(blocks[data_block + 1].azimuth,
                                       blocks[data_block].azimuth)
                              THEN F32Add(blocks[data_block + 1].azimuth,
                                          F32FromInt(360))
                              ELSE blocks[data_block + 1].azimuth),
                    sequence, channel)
    ELSE predict_last(IF F32Lt(blocks[data_block].azimuth,
                               blocks[data_block - 1].azimuth)
                      THEN F32Add(blocks[data_block].azimuth, F32FromInt(360))
                      ELSE blocks[data_block].azimuth,
                      blocks[data_block - 1].azimuth,
                      sequence, channel)

\* f32::to_radians, sin and cos are not computed: a coordinate is kept as
\* the product the code forms, range first.  A zero range times the finite
\* factors is zero.
Product(range, factors) ==
    IF F32IsZero(range) THEN F32Zero
    ELSE [range |-> range, factors |-> factors]

\* The Point pushed for data_record of channel `channel`, given its predicted
\* azimuth, the tag of the azimuth and the vertical angle.
Point_of(data_record, mode, channel, azimuth, tag, vert) ==
    [x |-> Product(data_record.return_distance,
                   <<[fn |-> "cos", deg |-> vert], [fn |-> "sin", deg |-> azimuth]>>),
     y |-> Product(data_record.return_distance,
                   <<[fn |-> "cos", deg |-> vert], [fn |-> "cos", deg |-> azimuth]>>),
     z |-> Product(data_record.return_distance, <<[fn |-> "sin", deg |-> vert]>>),
     reflectivity |-> data_record.calibrated_reflectivity,
     channel |-> channel,
     azimuth |-> [tag |-> tag, deg |-> azimuth],
     return_type |-> IF mode = "StrongestReturn" THEN "Strongest" ELSE "Last"]

\* A variant that takes only the first firing of the packet as Measured, and
\* all of the last block as Extrapolated.
AzimuthTag_first_only(i, j, channel) ==
    IF i = 0 /\ j = 0 /\ channel = 0 THEN "Measured"
    ELSE IF i < NUM_DATA_BLOCKS - 1 THEN "Interpolated"
    ELSE "Extrapolated"

\* The tag points() gives the azimuth of record (i, j, channel).
AzimuthTag(i, j, channel) ==
    IF j = 0 /\ channel = 0 THEN "Measured"
    ELSE IF i < NUM_DATA_BLOCKS - 1 THEN "Interpolated"
    ELSE "Extrapolated"

\* The body of the loops of points() for data record (i, j, channel).
PointAt(blocks, mode, i, j, channel) ==
    Point_of(blocks[i].data_records[j][channel], mode, channel,
             predict(blocks, i, j, channel),
             AzimuthTag(i, j, channel),
             vertical_angle(channel))

\* The innermost loop of points(): the points of sequence j of block i,
\* pushed in channel order.
PushChannels(blocks, mode, i, j) ==
    [n \in 1..NUM_LASERS |-> PointAt(blocks, mode, i, j, n - 1)]

\* A variant that pushes the second sequence of block i first.
PushSequences_swapped(blocks, mode, i) ==
    PushChannels(blocks, mode, i, 1) \o PushChannels(blocks, mode, i, 0)

\* The middle loop: both sequences of block i, in order.
PushSequences(blocks, mode, i) ==
    PushChannels(blocks, mode, i, 0) \o PushChannels(blocks, mode, i, 1)

RECURSIVE PushBlocks(_, _, _)
\* The outer loop: what blocks i, i + 1, ... push, in order.
PushBlocks(blocks, mode, i) ==
    IF i = NUM_DATA_BLOCKS THEN <<>>
    ELSE PushSequences(blocks, mode, i) \o PushBlocks(blocks, mode, i + 1)

\* Packet::points: unimplemented!() panics under DualReturn; otherwise the
\* three nested loops push one Point per data record.
Packet_points(packet) ==
    IF packet.kind = "Position" THEN None
    ELSE IF packet.return_mode = "DualReturn" THEN Panic
    ELSE Some(PushBlocks(packet.data_blocks, packet.return_mode, 0))

(***************************************************************************)
(* The payloads handed to the decoder.  A payload starts as a well-formed  *)
(* data or position packet of the wire layout and is then overwritten or   *)
(* cut short by the caller before it is decoded.                           *)
(***************************************************************************)
\* How many times a payload is overwritten or cut before it is decoded.
MaxPokes == 1

\* The length of a data payload: header, blocks, timestamp, factory bytes.
PayloadLen ==
    PACKET_HEADER_LEN + NUM_DATA_BLOCKS * (4 + 2 * NUM_LASERS * 3) + 4 + 2

SENTENCE_FULL ==
    <<36, 71, 80, 82, 77, 67, 44, 50, 49, 52, 49, 48, 54, 44, 65, 44, 51,
      55, 48, 55, 46, 56, 49, 55, 56, 44, 78, 44, 49, 50, 49, 51, 57, 46,
      50, 54, 57, 48, 44, 87, 44, 48, 49, 48, 46, 51, 44, 49, 56, 56, 46,
      50, 44, 50, 51, 48, 55, 49, 53, 44, 48, 49, 51, 46, 56, 44, 69, 44,
      68, 42, 48, 53>>

\* A shorter sentence, which leaves the end of the 72-byte field to NULs.
SENTENCE_SHORT ==
    <<36, 71, 80, 82, 77, 67, 44, 48, 48, 48, 48, 48, 49, 44, 86, 44, 48,
      49, 51, 48, 46, 48, 48, 48, 48, 44, 83, 44, 48, 48, 48, 53, 57, 46,
      57, 57, 48, 48, 44, 69, 44, 48, 46, 48, 44, 48, 46, 48, 44, 48, 49,
      48, 49, 48, 48, 44, 49, 46, 53, 44, 87, 44, 78, 42, 48, 55>>

Sentences == {SENTENCE_FULL, SENTENCE_SHORT}

\* Block azimuths of the data payloads: start + b * step hundredths of a
\* degree, wrapping at 360 degrees.
AzStarts == {22970, 35900}
AzSteps == {40}
Seeds == {1}

\* The 42 bytes of Ethernet, IP and UDP headers carry nothing the decoder
\* reads.
HeaderByte(o) == (37 * o + 11) % 256

RawAzimuth(start, step, b) == (start + b * step) % 36000

\* Record k = 32 * b + 16 * s + c of a data payload: raw distance (zero, no
\* return, every seventh record) and reflectivity.
RawDistance(seed, k) == IF k % 7 = 0 THEN 0 ELSE (3262 * seed * k + 1) % 65536
RawReflectivity(seed, k) == (4 + seed + 9 * k) % 256

DataPayload(start, step, seed) ==
    [i \in 1..PayloadLen |->
        LET o == i - 1
            b == (o - PACKET_HEADER_LEN) \div 100
            j == (o - PACKET_HEADER_LEN) % 100
            k == 32 * b + (j - 4) \div 3
        IN  IF o < PACKET_HEADER_LEN THEN HeaderByte(o)
            ELSE IF o >= PayloadLen - 6
                 THEN <<247, 21, 13, 147, 55, 34>>[o - (PayloadLen - 6) + 1]
            ELSE IF j = 0 THEN START_IDENTIFIER % 256
            ELSE IF j = 1 THEN START_IDENTIFIER \div 256
            ELSE IF j = 2 THEN RawAzimuth(start, step, b) % 256
            ELSE IF j = 3 THEN RawAzimuth(start, step, b) \div 256
            ELSE IF (j - 4) % 3 = 0 THEN RawDistance(seed, k) % 256
            ELSE IF (j - 4) % 3 = 1 THEN RawDistance(seed, k) \div 256
            ELSE RawReflectivity(seed, k)]

PositionPayload(sentence) ==
    [i \in 1..PayloadLen |->
        LET o == i - 1
        IN  IF o < PACKET_HEADER_LEN THEN HeaderByte(o)
            ELSE IF o >= 240 /\ o < 244 THEN <<51, 29, 13, 147>>[o - 240 + 1]
            ELSE IF o >= 248 /\ o < 248 + Len(sentence) THEN sentence[o - 248 + 1]
            ELSE 0]

InitPayloads ==
    {DataPayload(start, step, seed) :
        start \in AzStarts, step \in AzSteps, seed \in Seeds}
    \cup {PositionPayload(sentence) : sentence \in Sentences}

\* What a caller may write into a payload in one go: writes <<offset, bytes>>.
Pokes ==
    { << <<42, <<0, 0>>>> >>,          \* block 0: start identifier 0
      << <<542, <<52, 18>>>>,          \* block 5: start identifier 0x1234,
         <<1142, <<238, 255>>>> >>,    \*   block 11: 0xFFEE
      << <<1142, <<238, 255>>>> >>,    \* block 11: start identifier 0xFFEE
      << <<44, <<255, 255>>>> >>,      \* block 0: raw azimuth 65535
      << <<1144, <<160, 140>>>> >>,    \* block 11: raw azimuth 36000
      << <<46, <<1, 0>>>> >>,          \* record (0, 0, 0): raw distance 1
      << <<49, <<0, 0>>>> >>,          \* record (0, 0, 1): raw distance 0
      << <<1246, <<56>>>> >>,          \* return mode 0x38
      << <<1246, <<57>>>> >>,          \* return mode 0x39
      << <<1246, <<58>>>> >>,          \* return mode 0x3A
      << <<1247, <<33>>>> >>,          \* sensor 0x21
      << <<1247, <<35>>>> >>,          \* sensor 0x23
      << <<1246, <<56, 33>>>> >>,      \* return mode 0x38, sensor 0x21
      << <<1246, <<58, 35>>>> >>,      \* return mode 0x3A, sensor 0x23
      << <<248, GPRMC>> >>,            \* "$GPRMC" where the classifier looks
      << <<248, SENTENCE_FULL>> >>,    \* a whole sentence in the NMEA field
      << <<253, <<90>>>> >>,           \* "$GPRMZ"
      << <<300, <<0>>>> >>,            \* a NUL inside the NMEA field
      << <<300, <<255>>>> >>,          \* a byte that is not UTF-8
      << <<318, <<195, 169>>>> >>,     \* a two-byte UTF-8 character
      << <<243, <<255>>>>,             \* timestamps above 2^31 microseconds
         <<1245, <<255>>>> >> }

\* The lengths a payload may be cut to.
CutLens == {100, 253, 254, 300, 554, PayloadLen - 1}

\* bytes, pokes, packet, points: a payload, how often the caller touched it,
\* and what Packet::new and Packet::points returned for it.  args, ret: the
\* arguments and the return value of a function called on its own.  capture:
\* what capture.next() has returned so far to the loop of from_pcap_path;
\* packets: the Vec the loop pushes to.
VARIABLES bytes, pokes, packet, points, args, ret, capture, packets

vars == <<bytes, pokes, packet, points, args, ret, capture, packets>>

Init ==
    /\ bytes \in InitPayloads
    /\ pokes = 0
    /\ packet = NotCalled
    /\ points = NotCalled
    /\ args = NotCalled
    /\ ret = NotCalled
    /\ capture = <<>>
    /\ packets = <<>>

\* Byte i (1-based) of buf after the writes of poke p.
Poked(buf, p, i) ==
    IF \E k \in 1..Len(p) : i > p[k][1] /\ i <= p[k][1] + Len(p[k][2])
    THEN p[CHOOSE k \in 1..Len(p) : i > p[k][1] /\ i <= p[k][1] + Len(p[k][2])][2]
          [i - p[CHOOSE k \in 1..Len(p) : i > p[k][1] /\ i <= p[k][1] + Len(p[k][2])][1]]
    ELSE buf[i]

\* The caller overwrites part of the payload.
Poke(p) ==
    /\ packet = NotCalled
    /\ pokes < MaxPokes
    /\ \A k \in 1..Len(p) : p[k][1] + Len(p[k][2]) <= Len(bytes)
    /\ bytes' = [i \in 1..Len(bytes) |-> Poked(bytes, p, i)]
    /\ pokes' = pokes + 1
    /\ UNCHANGED <<packet, points, args, ret, capture, packets>>

\* The caller hands over only the first n bytes.
Cut(n) ==
    /\ packet = NotCalled
    /\ pokes < MaxPokes
    /\ n < Len(bytes)
    /\ bytes' = SubSeq(bytes, 1, n)
    /\ pokes' = pokes + 1
    /\ UNCHANGED <<packet, points, args, ret, capture, packets>>

\* Packet::new(&bytes)
New ==
    /\ packet = NotCalled
    /\ packet' = Packet_new(bytes)
    /\ UNCHANGED <<bytes, pokes, points, args, ret, capture, packets>>

\* packet.points()
Points ==
    /\ packet.tag = "Ok"
    /\ points = NotCalled
    /\ points' = Packet_points(packet.val)
    /\ UNCHANGED <<bytes, pokes, packet, args, ret, capture, packets>>

Next ==
    \/ \E p \in Pokes : Poke(p)
    \/ \E n \in CutLens : Cut(n)
    \/ New
    \/ Points

Spec == Init /\ [][Next]_vars

(***************************************************************************)
(* Packets from a head that turns slowly across 360 degrees: the azimuths  *)
(* of the twelve blocks rise by a constant step from a start just below    *)
(* 360, so that the wrap falls between different blocks.                   *)
(***************************************************************************)
SweepStarts == 35976..35999

SweepSteps == {0, 1, 2, 3, 59}

InitSweep ==
    /\ bytes \in {DataPayload(start, step, 1) :
                     start \in SweepStarts, step \in SweepSteps}
    /\ pokes = 0
    /\ packet = NotCalled
    /\ points = NotCalled
    /\ args = NotCalled
    /\ ret = NotCalled
    /\ capture = <<>>
    /\ packets = <<>>

NextSweep ==
    \/ New
    \/ Points

SpecSweep == InitSweep /\ [][NextSweep]_vars

(***************************************************************************)
(* timing.rs: the time of one firing.  A chrono Duration is kept as whole  *)
(* seconds and nanoseconds below 10^9, as chrono keeps it.                 *)
(***************************************************************************)
FIRING_DURATION == 2304

SEQUENCE_DURATION == 55296

NanosPerSec == 1000000000

\* Duration::nanoseconds(n), n >= 0.
Duration_nanoseconds(n) ==
    [secs |-> n \div NanosPerSec, nanos |-> n % NanosPerSec]

\* Duration + Duration: chrono carries the nanoseconds into the seconds.
Duration_add(a, b) ==
    IF a.nanos + b.nanos >= NanosPerSec
    THEN [secs |-> a.secs + b.secs + 1,
          nanos |-> a.nanos + b.nanos - NanosPerSec]
    ELSE [secs |-> a.secs + b.secs, nanos |-> a.nanos + b.nanos]

\* A variant with the two durations exchanged.
firing_time_exchanged(time, sequence_index, data_point_index) ==
    Duration_add(
        Duration_add(time,
                     Duration_nanoseconds(SEQUENCE_DURATION * data_point_index)),
        Duration_nanoseconds(FIRING_DURATION * sequence_index))

firing_time(time, sequence_index, data_point_index) ==
    Duration_add(
        Duration_add(time,
                     Duration_nanoseconds(FIRING_DURATION * data_point_index)),
        Duration_nanoseconds(SEQUENCE_DURATION * sequence_index))

(***************************************************************************)
(* nmea.rs: Position::new and to_dd.  A &str is the sequence of its bytes; *)
(* the sentences are ASCII.                                                *)
(***************************************************************************)
Nmea(what) == [kind |-> "Nmea", what |-> what]

ParseFloat == [kind |-> "ParseFloat"]

ChronoParse == [kind |-> "ChronoParse"]

\* The positions of byte c in str.
Positions(str, c) == {i \in 1..Len(str) : str[i] = c}

\* The bounds of word k (1-based) of str.split(','): after the (k-1)th comma,
\* before the kth.
WordStart(str, k) ==
    IF k = 1 THEN 1
    ELSE 1 + CHOOSE p \in Positions(str, 44) :
                 Cardinality({q \in Positions(str, 44) : q < p}) = k - 2

WordEnd(str, k) ==
    IF k = Cardinality(Positions(str, 44)) + 1 THEN Len(str)
    ELSE (CHOOSE p \in Positions(str, 44) :
              Cardinality({q \in Positions(str, 44) : q < p}) = k - 1) - 1

\* nmea.split(',').collect::<Vec<_>>()
split_comma(str) ==
    [k \in 1..(Cardinality(Positions(str, 44)) + 1) |->
        SubSeq(str, WordStart(str, k), WordEnd(str, k))]

\* nmea.rfind('*'), as a 0-based index.
rfind_star(str) ==
    IF Positions(str, 42) = {} THEN None
    ELSE Some((CHOOSE p \in Positions(str, 42) :
                  \A q \in Positions(str, 42) : q <= p) - 1)

RECURSIVE BitXor(_, _)
\* a ^ b
BitXor(a, b) ==
    IF a = 0 THEN b
    ELSE IF b = 0 THEN a
    ELSE ((a + b) % 2) + 2 * BitXor(a \div 2, b \div 2)

RECURSIVE XorFold(_, _, _)
\* str[first..last].bytes().fold(0, |acc, n| acc ^ n), bounds 1-based and
\* inclusive.  ^ is associative: the bytes are folded by halves.
XorFold(str, first, last) ==
    IF first > last THEN 0
    ELSE IF first = last THEN str[first]
    ELSE BitXor(XorFold(str, first, (first + last) \div 2),
                XorFold(str, (first + last) \div 2 + 1, last))

LowerHexDigit(d) == IF d < 10 THEN 48 + d ELSE 87 + d

\* format!("{:02x}", n) of a u8.
format_02x(n) == <<LowerHexDigit(n \div 16), LowerHexDigit(n % 16)>>

\* The checksum Position::new calculates: over nmea[1..last_star_position].
calculated_checksum(str, last_star_position) ==
    format_02x(XorFold(str, 2, last_star_position))

\* &nmea[nmea.len() - 2..]
expected_checksum(str) == SubSeq(str, Len(str) - 1, Len(str))

IsDigit(c) == c >= 48 /\ c <= 57

RECURSIVE DigitsValue(_, _)
\* The number the digits of str (any dot skipped) write, after acc.
DigitsValue(str, acc) ==
    IF str = <<>> THEN acc
    ELSE IF Head(str) = 46 THEN DigitsValue(Tail(str), acc)
    ELSE DigitsValue(Tail(str), 10 * acc + (Head(str) - 48))

\* The digits after the dot of a decimal numeral.
FractionDigits(str) ==
    IF Positions(str, 46) = {} THEN 0
    ELSE Len(str) - (CHOOSE p \in Positions(str, 46) : TRUE)

\* str.parse() to a float, for the numerals of a $GPRMC sentence: digits
\* with at most one dot.  The value is num / 10^scale.  Signs, exponents,
\* "inf" and "nan", which parse() takes as well, are not among the inputs;
\* any other text is an error, as it is for parse().
parse_float(str) ==
    IF /\ \A i \in 1..Len(str) : IsDigit(str[i]) \/ str[i] = 46
       /\ Cardinality(Positions(str, 46)) <= 1
       /\ \E i \in 1..Len(str) : IsDigit(str[i])
    THEN Ok([num |-> DigitsValue(str, 0), scale |-> FractionDigits(str)])
    ELSE Err(ParseFloat)

\* An f64 coordinate ddmm.mmmm in ten-thousandths (at most four decimals).
\* The error of an f64 (below 10^-12 here) is far under this resolution, so
\* round() and fract() fall as they do on the exact value.
TenThousandths(v) == v.num * 10 ^ (4 - v.scale)

\* to_dd, n in ten-thousandths: (n / 100.).round() is the nearest whole
\* number, halves away from zero; (n / 100.).fract() * 100. / 60. is
\* (n mod 10^6) / 600000.  The result counts 1/600000 degree.
to_dd(n) ==
    [num |-> ((n + 500000) \div 1000000) * 600000 + (n % 1000000),
     den |-> 600000]

\* to_dd(word.parse()?) * if hemisphere == negative { -1. } else { 1. }
signed_dd(word, hemisphere, negative) ==
    IF parse_float(word).tag = "Err" THEN parse_float(word)
    ELSE Ok([sg |-> IF hemisphere = <<negative>> THEN 1 ELSE 0,
             dd |-> to_dd(TenThousandths(parse_float(word).val))])

\* word.parse::<f32>()?, the f32 nearest to the numeral.
parse_f32(word) ==
    IF parse_float(word).tag = "Err" THEN parse_float(word)
    ELSE IF parse_float(word).val.num = 0 THEN Ok(F32Zero)
    ELSE Ok(F32Lit(parse_float(word).val.num, 10 ^ parse_float(word).val.scale))

\* words[10].parse::<f32>()? * if words[11] == "W" { -1. } else { 1. }
signed_f32(word, hemisphere) ==
    IF parse_f32(word).tag = "Err" THEN parse_f32(word)
    ELSE IF hemisphere = <<87>> THEN Ok(F32Neg(parse_f32(word).val))
    ELSE parse_f32(word)

DaysInMonth(year, month) ==
    IF month = 2 THEN (IF year % 4 = 0 THEN 29 ELSE 28)
    ELSE IF month \in {4, 6, 9, 11} THEN 30
    ELSE 31

\* The two-digit number at 0-based offset o of str.
TwoDigits(str, o) == 10 * (str[o + 1] - 48) + (str[o + 2] - 48)

\* UTC.datetime_from_str(str, "%d%m%y%H%M%S") for a str of twelve digits
\* (or too short to hold the six numbers, an error).  %y takes 70..99 as
\* 19yy and 00..69 as 20yy.
datetime_from_str(str) ==
    IF /\ Len(str) = 12
       /\ \A i \in 1..12 : IsDigit(str[i])
       /\ TwoDigits(str, 2) \in 1..12
       /\ TwoDigits(str, 0) \in 1..DaysInMonth(TwoDigits(str, 4), TwoDigits(str, 2))
       /\ TwoDigits(str, 6) < 24
       /\ TwoDigits(str, 8) < 60
       /\ TwoDigits(str, 10) < 60
    THEN Ok([year |-> (IF TwoDigits(str, 4) >= 70 THEN 1900 ELSE 2000)
                          + TwoDigits(str, 4),
             month |-> TwoDigits(str, 2), day |-> TwoDigits(str, 0),
             hour |-> TwoDigits(str, 6), minute |-> TwoDigits(str, 8),
             second |-> TwoDigits(str, 10)])
    ELSE Err(ChronoParse)

\* The end of Position::new: the ? of latitude, longitude and variation in
\* this order, then those of the fields of Position in theirs.
Position_build(words, latitude, longitude, variation, datetime, speed, true_course) ==
    IF latitude.tag = "Err" THEN latitude
    ELSE IF longitude.tag = "Err" THEN longitude
    ELSE IF variation.tag = "Err" THEN variation
    ELSE IF datetime.tag = "Err" THEN datetime
    ELSE IF speed.tag = "Err" THEN speed
    ELSE IF true_course.tag = "Err" THEN true_course
    ELSE Ok([datetime |-> datetime.val,
             valid |-> (words[3] = <<65>>),
             latitude |-> latitude.val,
             longitude |-> longitude.val,
             speed |-> speed.val,
             true_course |-> true_course.val,
             variation |-> variation.val])

\* Position::new once the checksum has passed.
Position_parse(words) ==
    Position_build(words,
        signed_dd(words[4], words[5], 83),
        signed_dd(words[6], words[7], 87),
        signed_f32(words[11], words[12]),
        datetime_from_str(words[10] \o words[2]),
        parse_f32(words[8]),
        parse_f32(words[9]))

\* Position::new from the star on.
Position_checksum(str, words, last_star_position) ==
    IF last_star_position = None
    THEN Err(Nmea("No ending star to delineate checksum"))
    ELSE IF expected_checksum(str) # calculated_checksum(str, last_star_position.val)
    THEN Err(Nmea("Invalid checksum"))
    ELSE Position_parse(words)

\* Position::new after the split.
Position_words(str, words) ==
    IF Len(words) # 13
    THEN Err(Nmea("$GPRMC should have 13 words"))
    ELSE IF words[1] # GPRMC
    THEN Err(Nmea("Positions can only be created from $GPRMC messages"))
    ELSE Position_checksum(str, words, rfind_star(str))

\* A variant that looks at the first word before it counts the words.
Position_new_name_first(str) ==
    IF split_comma(str)[1] # GPRMC
    THEN Err(Nmea("Positions can only be created from $GPRMC messages"))
    ELSE IF Len(split_comma(str)) # 13
    THEN Err(Nmea("$GPRMC should have 13 words"))
    ELSE Position_checksum(str, split_comma(str), rfind_star(str))

\* Position::new
Position_new(str) == Position_words(str, split_comma(str))

(***************************************************************************)
(* Functions called on their own, each on arguments from a bounded set.    *)
(***************************************************************************)
\* Packet timestamps, u32 microseconds as 16-bit halves: 0; 999_999;
\* 45_231_878 (the manual's example); 999_999_999; 3_599_999_999 (the end
\* of the hour); 4_294_967_295.
Timestamps ==
    {[lo |-> 0, hi |-> 0], [lo |-> 16959, hi |-> 15],
     [lo |-> 12038, hi |-> 690], [lo |-> 51711, hi |-> 15258],
     [lo |-> 41983, hi |-> 54931], [lo |-> 65535, hi |-> 65535]}

FiringTimeArgs ==
    {[fn |-> "firing_time",
      timestamp |-> Duration_microseconds(t),
      sequence_index |-> i,
      data_point_index |-> c] :
        t \in Timestamps, i \in 0..(2 * NUM_DATA_BLOCKS - 1),
        c \in 0..(NUM_LASERS - 1)}

\* tests::bad_checksum:
\* $GPRMC,214106,A,3707.8178,N,12139.2690,W,010.3,188.2,230715,013.9,E,D*05
NMEA_BAD_CHECKSUM ==
    <<36, 71, 80, 82, 77, 67, 44, 50, 49, 52, 49, 48, 54, 44, 65, 44, 51,
      55, 48, 55, 46, 56, 49, 55, 56, 44, 78, 44, 49, 50, 49, 51, 57, 46,
      50, 54, 57, 48, 44, 87, 44, 48, 49, 48, 46, 51, 44, 49, 56, 56, 46,
      50, 44, 50, 51, 48, 55, 49, 53, 44, 48, 49, 51, 46, 57, 44, 69, 44,
      68, 42, 48, 53>>

\* tests::too_few_words:
\* $GPRMC,214106,A,3707.8178,N,12139.2690,W,010.3,188.2,230715,013.9,E
NMEA_TOO_FEW_WORDS ==
    <<36, 71, 80, 82, 77, 67, 44, 50, 49, 52, 49, 48, 54, 44, 65, 44, 51,
      55, 48, 55, 46, 56, 49, 55, 56, 44, 78, 44, 49, 50, 49, 51, 57, 46,
      50, 54, 57, 48, 44, 87, 44, 48, 49, 48, 46, 51, 44, 49, 56, 56, 46,
      50, 44, 50, 51, 48, 55, 49, 53, 44, 48, 49, 51, 46, 57, 44, 69>>

\* tests::not_gprmc:
\* $GPRMZ,214106,A,3707.8178,N,12139.2690,W,010.3,188.2,230715,013.9,E,D*05
NMEA_NOT_GPRMC ==
    <<36, 71, 80, 82, 77, 90, 44, 50, 49, 52, 49, 48, 54, 44, 65, 44, 51,
      55, 48, 55, 46, 56, 49, 55, 56, 44, 78, 44, 49, 50, 49, 51, 57, 46,
      50, 54, 57, 48, 44, 87, 44, 48, 49, 48, 46, 51, 44, 49, 56, 56, 46,
      50, 44, 50, 51, 48, 55, 49, 53, 44, 48, 49, 51, 46, 57, 44, 69, 44,
      68, 42, 48, 53>>

\* neither $GPRMC nor 13 words:
\* $GPRMZ,214106,A,3707.8178,N,12139.2690,W,010.3,188.2,230715,013.8,E
NMEA_NOT_GPRMC_FEW ==
    <<36, 71, 80, 82, 77, 90, 44, 50, 49, 52, 49, 48, 54, 44, 65, 44, 51,
      55, 48, 55, 46, 56, 49, 55, 56, 44, 78, 44, 49, 50, 49, 51, 57, 46,
      50, 54, 57, 48, 44, 87, 44, 48, 49, 48, 46, 51, 44, 49, 56, 56, 46,
      50, 44, 50, 51, 48, 55, 49, 53, 44, 48, 49, 51, 46, 56, 44, 69>>

\* $GPGGA with 13 words and a right checksum:
\* $GPGGA,214106,A,3707.8178,N,12139.2690,W,010.3,188.2,230715,013.8,E,D*18
NMEA_NOT_GPRMC_VALID ==
    <<36, 71, 80, 71, 71, 65, 44, 50, 49, 52, 49, 48, 54, 44, 65, 44, 51,
      55, 48, 55, 46, 56, 49, 55, 56, 44, 78, 44, 49, 50, 49, 51, 57, 46,
      50, 54, 57, 48, 44, 87, 44, 48, 49, 48, 46, 51, 44, 49, 56, 56, 46,
      50, 44, 50, 51, 48, 55, 49, 53, 44, 48, 49, 51, 46, 56, 44, 69, 44,
      68, 42, 49, 56>>

\* 14 words:
\* $GPRMC,214106,A,3707.8178,N,12139.2690,W,010.3,188.2,230715,013.8,E,D,*29
NMEA_TOO_MANY_WORDS ==
    <<36, 71, 80, 82, 77, 67, 44, 50, 49, 52, 49, 48, 54, 44, 65, 44, 51,
      55, 48, 55, 46, 56, 49, 55, 56, 44, 78, 44, 49, 50, 49, 51, 57, 46,
      50, 54, 57, 48, 44, 87, 44, 48, 49, 48, 46, 51, 44, 49, 56, 56, 46,
      50, 44, 50, 51, 48, 55, 49, 53, 44, 48, 49, 51, 46, 56, 44, 69, 44,
      68, 44, 42, 50, 57>>

\* no star:
\* $GPRMC,214106,A,3707.8178,N,12139.2690,W,010.3,188.2,230715,013.8,E,D05
NMEA_NO_STAR ==
    <<36, 71, 80, 82, 77, 67, 44, 50, 49, 52, 49, 48, 54, 44, 65, 44, 51,
      55, 48, 55, 46, 56, 49, 55, 56, 44, 78, 44, 49, 50, 49, 51, 57, 46,
      50, 54, 57, 48, 44, 87, 44, 48, 49, 48, 46, 51, 44, 49, 56, 56, 46,
      50, 44, 50, 51, 48, 55, 49, 53, 44, 48, 49, 51, 46, 56, 44, 69, 44,
      68, 48, 53>>

\* the test sentence followed by CR LF:
\* $GPRMC,214106,A,3707.8178,N,12139.2690,W,010.3,188.2,230715,013.8,E,D*05\r\n
NMEA_CRLF ==
    <<36, 71, 80, 82, 77, 67, 44, 50, 49, 52, 49, 48, 54, 44, 65, 44, 51,
      55, 48, 55, 46, 56, 49, 55, 56, 44, 78, 44, 49, 50, 49, 51, 57, 46,
      50, 54, 57, 48, 44, 87, 44, 48, 49, 48, 46, 51, 44, 49, 56, 56, 46,
      50, 44, 50, 51, 48, 55, 49, 53, 44, 48, 49, 51, 46, 56, 44, 69, 44,
      68, 42, 48, 53, 13, 10>>

\* a right checksum two characters after the star's own:
\* $GPRMC,214106,A,3707.8178,N,12139.2690,W,010.3,188.2,230715,013.8,E,D*zz05
NMEA_STAR_JUNK ==
    <<36, 71, 80, 82, 77, 67, 44, 50, 49, 52, 49, 48, 54, 44, 65, 44, 51,
      55, 48, 55, 46, 56, 49, 55, 56, 44, 78, 44, 49, 50, 49, 51, 57, 46,
      50, 54, 57, 48, 44, 87, 44, 48, 49, 48, 46, 51, 44, 49, 56, 56, 46,
      50, 44, 50, 51, 48, 55, 49, 53, 44, 48, 49, 51, 46, 56, 44, 69, 44,
      68, 42, 122, 122, 48, 53>>

\* a checksum with a letter, lower case:
\* $GPRMC,214106,A,3750.0000,N,12139.2690,W,010.3,188.2,230715,013.8,E,N*0b
NMEA_LOWER_HEX ==
    <<36, 71, 80, 82, 77, 67, 44, 50, 49, 52, 49, 48, 54, 44, 65, 44, 51,
      55, 53, 48, 46, 48, 48, 48, 48, 44, 78, 44, 49, 50, 49, 51, 57, 46,
      50, 54, 57, 48, 44, 87, 44, 48, 49, 48, 46, 51, 44, 49, 56, 56, 46,
      50, 44, 50, 51, 48, 55, 49, 53, 44, 48, 49, 51, 46, 56, 44, 69, 44,
      78, 42, 48, 98>>

\* the same, upper case:
\* $GPRMC,214106,A,3750.0000,N,12139.2690,W,010.3,188.2,230715,013.8,E,N*0B
NMEA_UPPER_HEX ==
    <<36, 71, 80, 82, 77, 67, 44, 50, 49, 52, 49, 48, 54, 44, 65, 44, 51,
      55, 53, 48, 46, 48, 48, 48, 48, 44, 78, 44, 49, 50, 49, 51, 57, 46,
      50, 54, 57, 48, 44, 87, 44, 48, 49, 48, 46, 51, 44, 49, 56, 56, 46,
      50, 44, 50, 51, 48, 55, 49, 53, 44, 48, 49, 51, 46, 56, 44, 69, 44,
      78, 42, 48, 66>>

\* south, east, void, minutes from 50 on:
\* $GPRMC,000001,V,0159.9999,S,00050.0000,E,0.0,0.0,010100,1.5,W,N*01
NMEA_SOUTH_EAST ==
    <<36, 71, 80, 82, 77, 67, 44, 48, 48, 48, 48, 48, 49, 44, 86, 44, 48,
      49, 53, 57, 46, 57, 57, 57, 57, 44, 83, 44, 48, 48, 48, 53, 48, 46,
      48, 48, 48, 48, 44, 69, 44, 48, 46, 48, 44, 48, 46, 48, 44, 48, 49,
      48, 49, 48, 48, 44, 49, 46, 53, 44, 87, 44, 78, 42, 48, 49>>

\* a latitude that is no number:
\* $GPRMC,214106,A,,N,12139.2690,W,010.3,188.2,230715,013.8,E,D*2e
NMEA_BAD_LATITUDE ==
    <<36, 71, 80, 82, 77, 67, 44, 50, 49, 52, 49, 48, 54, 44, 65, 44, 44,
      78, 44, 49, 50, 49, 51, 57, 46, 50, 54, 57, 48, 44, 87, 44, 48, 49,
      48, 46, 51, 44, 49, 56, 56, 46, 50, 44, 50, 51, 48, 55, 49, 53, 44,
      48, 49, 51, 46, 56, 44, 69, 44, 68, 42, 50, 101>>

\* month 13:
\* $GPRMC,214106,A,3707.8178,N,12139.2690,W,010.3,188.2,231315,013.8,E,D*00
NMEA_BAD_DATE ==
    <<36, 71, 80, 82, 77, 67, 44, 50, 49, 52, 49, 48, 54, 44, 65, 44, 51,
      55, 48, 55, 46, 56, 49, 55, 56, 44, 78, 44, 49, 50, 49, 51, 57, 46,
      50, 54, 57, 48, 44, 87, 44, 48, 49, 48, 46, 51, 44, 49, 56, 56, 46,
      50, 44, 50, 51, 49, 51, 49, 53, 44, 48, 49, 51, 46, 56, 44, 69, 44,
      68, 42, 48, 48>>

\* a speed that is no number:
\* $GPRMC,214106,A,3707.8178,N,12139.2690,W,x,188.2,230715,013.8,E,D*51
NMEA_BAD_SPEED ==
    <<36, 71, 80, 82, 77, 67, 44, 50, 49, 52, 49, 48, 54, 44, 65, 44, 51,
      55, 48, 55, 46, 56, 49, 55, 56, 44, 78, 44, 49, 50, 49, 51, 57, 46,
      50, 54, 57, 48, 44, 87, 44, 120, 44, 49, 56, 56, 46, 50, 44, 50, 51,
      48, 55, 49, 53, 44, 48, 49, 51, 46, 56, 44, 69, 44, 68, 42, 53, 49>>

\* SENTENCE_SHORT as Packet::nmea returns it: the 72 bytes of the field.
SENTENCE_PADDED == SENTENCE_SHORT \o <<0, 0, 0, 0, 0, 0>>

NmeaSentences ==
    {SENTENCE_FULL,
     SENTENCE_SHORT,
     SENTENCE_PADDED,
     NMEA_BAD_CHECKSUM,
     NMEA_TOO_FEW_WORDS,
     NMEA_NOT_GPRMC,
     NMEA_NOT_GPRMC_FEW,
     NMEA_NOT_GPRMC_VALID,
     NMEA_TOO_MANY_WORDS,
     NMEA_NO_STAR,
     NMEA_CRLF,
     NMEA_STAR_JUNK,
     NMEA_LOWER_HEX,
     NMEA_UPPER_HEX,
     NMEA_SOUTH_EAST,
     NMEA_BAD_LATITUDE,
     NMEA_BAD_DATE,
     NMEA_BAD_SPEED}

PositionNewArgs == {[fn |-> "Position::new", nmea |-> str] : str \in NmeaSentences}

\* Coordinates ddmm.mmmm in ten-thousandths: degrees 0, 37, 121 and 179 with
\* minutes from 0 to 59.9999.
ToDdArgs ==
    {[fn |-> "to_dd", n |-> 1000000 * dd + mm] :
        dd \in {0, 37, 121, 179},
        mm \in {0, 78178, 299999, 300000, 499999, 500000, 599999}}

CallArgs == FiringTimeArgs \cup PositionNewArgs \cup ToDdArgs

InitCalls ==
    /\ bytes = <<>>
    /\ pokes = 0
    /\ packet = NotCalled
    /\ points = NotCalled
    /\ args \in CallArgs
    /\ ret = NotCalled
    /\ capture = <<>>
    /\ packets = <<>>

\* firing_time(timestamp, sequence_index, data_point_index)
FiringTime ==
    /\ args.fn = "firing_time"
    /\ ret = NotCalled
    /\ ret' = firing_time(args.timestamp, args.sequence_index,
                          args.data_point_index)
    /\ UNCHANGED <<bytes, pokes, packet, points, args, capture, packets>>

\* Position::new(nmea)
PositionNew ==
    /\ args.fn = "Position::new"
    /\ ret = NotCalled
    /\ ret' = Position_new(args.nmea)
    /\ UNCHANGED <<bytes, pokes, packet, points, args, capture, packets>>

\* to_dd(n)
ToDd ==
    /\ args.fn = "to_dd"
    /\ ret = NotCalled
    /\ ret' = to_dd(args.n)
    /\ UNCHANGED <<bytes, pokes, packet, points, args, capture, packets>>

NextCalls ==
    \/ FiringTime
    \/ PositionNew
    \/ ToDd

SpecCalls == InitCalls /\ [][NextCalls]_vars

(***************************************************************************)
(* packet.rs: Packet::from_pcap_path.  The capture file is the             *)
(* environment: each turn of the loop capture.next() returns a packet, the *)
(* end of the file, or another pcap error.                                 *)
(***************************************************************************)
\* How many packets a capture file delivers at most.
MaxPackets == 3

NoMorePackets == [kind |-> "NoMorePackets"]

PcapError == [kind |-> "PcapError"]

\* From<pcap::Error> for Error
Pcap(e) == [kind |-> "Pcap", pcap |-> e]

\* A data payload whose block 5 has the start identifier 0x1234.
BadStartPayload ==
    [i \in 1..PayloadLen |->
        Poked(DataPayload(22970, 40, 1), << <<542, <<52, 18>>>> >>, i)]

\* The payloads a capture file holds.
CapturePayloads ==
    {DataPayload(22970, 40, 1), DataPayload(35900, 40, 1),
     PositionPayload(SENTENCE_FULL), BadStartPayload}

\* A variant of the Ok arm that goes on to the next packet when one fails
\* to decode.
push_or_skip(vec, data) ==
    IF from_pcap_packet(data) = Panic THEN [packets |-> vec, ret |-> Panic]
    ELSE IF from_pcap_packet(data).tag = "Err"
         THEN [packets |-> vec, ret |-> NotCalled]
    ELSE [packets |-> Append(vec, from_pcap_packet(data).val), ret |-> NotCalled]

\* The Ok arm: packets.push(Packet::from_pcap_packet(packet)?).  The ?
\* returns the error of the decoder from from_pcap_path; ret stays NotCalled
\* while the loop goes on.
push_or_return(vec, data) ==
    IF from_pcap_packet(data) = Panic THEN [packets |-> vec, ret |-> Panic]
    ELSE IF from_pcap_packet(data).tag = "Err"
         THEN [packets |-> vec, ret |-> from_pcap_packet(data)]
    ELSE [packets |-> Append(vec, from_pcap_packet(data).val), ret |-> NotCalled]

StreamArgs == {[fn |-> "from_pcap_path", opens |-> o] : o \in BOOLEAN}

InitStream ==
    /\ bytes = <<>>
    /\ pokes = 0
    /\ packet = NotCalled
    /\ points = NotCalled
    /\ args \in StreamArgs
    /\ ret = NotCalled
    /\ capture = <<>>
    /\ packets = <<>>

\* Capture::from_file(path)? fails: from_pcap_path returns before the loop.
FromFileErr ==
    /\ ~args.opens
    /\ ret = NotCalled
    /\ ret' = Err(Pcap(PcapError))
    /\ UNCHANGED <<bytes, pokes, packet, points, args, capture, packets>>

\* One turn of the loop, capture.next() returning Ok(packet).
CaptureNextOk(data) ==
    /\ args.opens
    /\ ret = NotCalled
    /\ Len(capture) < MaxPackets
    /\ capture' = Append(capture, Ok(data))
    /\ packets' = push_or_return(packets, data).packets
    /\ ret' = push_or_return(packets, data).ret
    /\ UNCHANGED <<bytes, pokes, packet, points, args>>

\* One turn of the loop, capture.next() returning Err(NoMorePackets).
CaptureNextNoMorePackets ==
    /\ args.opens
    /\ ret = NotCalled
    /\ capture' = Append(capture, Err(NoMorePackets))
    /\ ret' = Ok(packets)
    /\ UNCHANGED <<bytes, pokes, packet, points, args, packets>>

\* One turn of the loop, capture.next() returning another error.
CaptureNextErr ==
    /\ args.opens
    /\ ret = NotCalled
    /\ capture' = Append(capture, Err(PcapError))
    /\ ret' = Err(Pcap(PcapError))
    /\ UNCHANGED <<bytes, pokes, packet, points, args, packets>>

NextStream ==
    \/ FromFileErr
    \/ \E data \in CapturePayloads : CaptureNextOk(data)
    \/ CaptureNextNoMorePackets
    \/ CaptureNextErr

SpecStream == InitStream /\ [][NextStream]_vars

(***************************************************************************)
(* The payload as the wire layout describes it, read straight from the     *)
(* bytes: what the properties below compare the decoder's output with.     *)
(***************************************************************************)
\* The byte at (0-based) offset o.
ByteAt(o) == bytes[o + 1]

\* The little-endian u16 at offset o.
WordAt(o) == bytes[o + 1] + 256 * bytes[o + 2]

Called == packet.tag # "NotCalled"

Decoded == packet.tag = "Ok"

\* Bytes 248..254 of the payload are "$GPRMC".
Fingerprint ==
    /\ Len(bytes) >= 254
    /\ ByteAt(248) = 36 /\ ByteAt(249) = 71 /\ ByteAt(250) = 80
    /\ ByteAt(251) = 82 /\ ByteAt(252) = 77 /\ ByteAt(253) = 67

\* The payload goes down the data path.
DataClassified == Len(bytes) >= 254 /\ ~Fingerprint

\* The blocks whose start identifier is in the payload and is not 0xEEFF.
BadBlocks ==
    {b \in 0..11 : 42 + 100 * b + 2 <= Len(bytes) /\ WordAt(42 + 100 * b) # 61183}

\* The offset of data record (b, s, c).
RecordAt(b, s, c) == 42 + 100 * b + 4 + 48 * s + 3 * c

\* The four little-endian bytes of a Duration's whole microseconds
\* (below 2^32).
MicrosBytes(d) ==
    LET us == d.nanos \div 1000
        low == (64 * d.secs + us) % 256                 \* 10^6 = 3906 * 256 + 64
        rest == 3906 * d.secs + (64 * d.secs + us) \div 256
    IN  <<low, rest % 256, (rest \div 256) % 256, rest \div 65536>>

C2_ShortPayloadIsAnError ==
    (Called /\ Len(bytes) < 1248) =>
        (packet.tag = "Err" /\ packet.err = Io("UnexpectedEof"))

\* C3: a data-classified payload decodes only if each of its 12 blocks
\* starts with 0xEEFF; if a block does not, decoding fails with
\* InvalidStartIdentifier(v), v the value of the first such block.
C3_StartIdentifiers ==
    (Called /\ DataClassified) =>
        /\ Decoded =>
              \A b \in 0..11 : 42 + 100 * b + 2 <= Len(bytes)
                               /\ WordAt(42 + 100 * b) = 61183
        /\ BadBlocks # {} =>
              packet = Err(InvalidStartIdentifier(
                  WordAt(42 + 100 * (CHOOSE b \in BadBlocks :
                                        \A c \in BadBlocks : b <= c))))

\* Two blocks with different wrong identifiers: the first one's is reported.
C3_Witness ==
    /\ Called /\ DataClassified
    /\ Cardinality(BadBlocks) = 2
    /\ Cardinality({WordAt(42 + 100 * b) : b \in BadBlocks}) = 2
    /\ packet.tag = "Err"

\* C4: with 12 valid blocks, the return-mode byte (offset 1246) maps 0x37,
\* 0x38, 0x39 to Strongest, Last, Dual and any other n fails with
\* InvalidReturnMode(n); the sensor byte (offset 1247), read next, maps 0x21,
\* 0x22 to HDL_32E, VLP_16 and any other n fails with InvalidSensor(n); an
\* unknown code never becomes a valid variant.
C4_FactoryBytes ==
    (Called /\ DataClassified /\ Len(bytes) = 1248 /\ BadBlocks = {}) =>
        /\ ByteAt(1246) \notin {55, 56, 57} =>
              packet = Err(InvalidReturnMode(ByteAt(1246)))
        /\ (ByteAt(1246) \in {55, 56, 57} /\ ByteAt(1247) \notin {33, 34}) =>
              packet = Err(InvalidSensor(ByteAt(1247)))
        /\ Decoded =>
              /\ return_mode(packet.val) =
                    Some(CASE ByteAt(1246) = 55 -> "StrongestReturn"
                           [] ByteAt(1246) = 56 -> "LastReturn"
                           [] ByteAt(1246) = 57 -> "DualReturn"
                           [] OTHER -> "unknown")
              /\ sensor(packet.val) =
                    Some(CASE ByteAt(1247) = 33 -> "HDL_32E"
                           [] ByteAt(1247) = 34 -> "VLP_16"
                           [] OTHER -> "unknown")
        /\ (ByteAt(1246) \in {55, 56, 57} /\ ByteAt(1247) \in {33, 34}) => Decoded

\* An unknown sensor code after a valid return mode.
C4_Witness ==
    /\ Called /\ DataClassified /\ Len(bytes) = 1248 /\ BadBlocks = {}
    /\ ByteAt(1246) = 55 /\ ByteAt(1247) = 35
    /\ packet.tag = "Err"

\* Re-encoding a decoded scaled value: the nearest u16.
EncodeAzimuth(azimuth) == F32RoundMag(F32Mul(azimuth, F32FromInt(100)))
EncodeDistance(distance) == F32RoundMag(F32Div(distance, F32Lit(2, 1000)))

\* Byte j (0..99) of block b, re-encoded from the decoded block.
EncodedBlockByte(block, j) ==
    IF j = 0 THEN 255
    ELSE IF j = 1 THEN 238
    ELSE IF j = 2 THEN EncodeAzimuth(block.azimuth) % 256
    ELSE IF j = 3 THEN EncodeAzimuth(block.azimuth) \div 256
    ELSE LET rec == block.data_records[(j - 4) \div 48][((j - 4) % 48) \div 3]
         IN  IF (j - 4) % 3 = 0 THEN EncodeDistance(rec.return_distance) % 256
             ELSE IF (j - 4) % 3 = 1
                  THEN EncodeDistance(rec.return_distance) \div 256
             ELSE rec.calibrated_reflectivity

\* C5: decoding inverts the layout.  For a decoded Data packet, block b's
\* azimuth is the u16 at 42+100b+2 over 100, record (b,s,c)'s distance the
\* u16 at 42+100b+4+48s+3c times 0.002 and its reflectivity the next byte,
\* the timestamp the u32 at 1242 in microseconds; and re-encoding the decoded
\* values block by block gives back bytes 42..1242.
C5_DecodeInvertsLayout ==
    (Decoded /\ is_data(packet.val)) =>
        /\ \A b \in 0..11 :
              /\ packet.val.data_blocks[b].azimuth =
                    F32Ratio(0, WordAt(42 + 100 * b + 2), 100, 0)
                 \/ (WordAt(42 + 100 * b + 2) = 0
                     /\ F32IsZero(packet.val.data_blocks[b].azimuth))
              /\ \A j \in 0..99 :
                    EncodedBlockByte(packet.val.data_blocks[b], j)
                        = ByteAt(42 + 100 * b + j)
        /\ \A b \in 0..11, s \in 0..1, c \in 0..15 :
              /\ packet.val.data_blocks[b].data_records[s][c].return_distance
                    = F32Mul(F32FromInt(WordAt(RecordAt(b, s, c))), F32Lit(2, 1000))
              /\ packet.val.data_blocks[b].data_records[s][c].calibrated_reflectivity
                    = ByteAt(RecordAt(b, s, c) + 2)
        /\ MicrosBytes(timestamp(packet.val))
              = <<ByteAt(1242), ByteAt(1243), ByteAt(1244), ByteAt(1245)>>
        /\ timestamp(packet.val).nanos % 1000 = 0

\* A decoded Data packet whose first azimuth is the largest u16 and whose
\* timestamp is above 2^31 microseconds.
C5_Witness ==
    /\ Decoded /\ is_data(packet.val)
    /\ WordAt(44) = 65535 /\ ByteAt(1245) = 147

RECURSIVE UpToNul(_, _)
\* data from index i up to, not including, its first NUL.
UpToNul(data, i) ==
    IF i > Len(data) \/ data[i] = 0 THEN <<>>
    ELSE <<data[i]>> \o UpToNul(data, i + 1)

\* C6: a Position-classified payload decodes, with the timestamp the u32 at
\* offset 240 in microseconds and nmea() the 72 bytes at 248..320 cut at the
\* first NUL.
C6_NmeaCutAtFirstNul ==
    (Called /\ Fingerprint /\ Len(bytes) = 1248) =>
        /\ Decoded
        /\ MicrosBytes(timestamp(packet.val))
              = <<ByteAt(240), ByteAt(241), ByteAt(242), ByteAt(243)>>
        /\ nmea(packet.val) = Some(UpToNul(SubSeq(bytes, 249, 320), 1))

\* C7: every block of a decoded Data packet has an azimuth in [0, 360).
C7_AzimuthBelow360 ==
    (Decoded /\ is_data(packet.val)) =>
        \A b \in 0..11 :
            /\ ~F32Lt(packet.val.data_blocks[b].azimuth, F32Zero)
            /\ F32Lt(packet.val.data_blocks[b].azimuth, F32FromInt(360))

PointsCalled == points.tag # "NotCalled"

\* C8: for a Data packet not in Dual mode, points() returns 384 points in
\* firing order: the point at index 32b + 16s + c has channel c and the
\* reflectivity of record (b,s,c), and return type Strongest under mode
\* Strongest, Last otherwise; a record of range zero still gives a point, at
\* the origin.  For a Position packet points() returns None.
C8_PointsInFiringOrder ==
    (Decoded /\ PointsCalled) =>
        /\ is_position(packet.val) => points = None
        /\ (is_data(packet.val) /\ ByteAt(1246) # 57) =>
              /\ points.tag = "Some"
              /\ Len(points.val) = 384
              /\ \A b \in 0..11, s \in 0..1, c \in 0..15 :
                    LET pt == points.val[32 * b + 16 * s + c + 1]
                    IN  /\ pt.channel = c
                        /\ pt.reflectivity = ByteAt(RecordAt(b, s, c) + 2)
                        /\ pt.return_type =
                              (IF ByteAt(1246) = 55 THEN "Strongest" ELSE "Last")
                        /\ WordAt(RecordAt(b, s, c)) = 0 =>
                              (pt.x = F32Zero /\ pt.y = F32Zero /\ pt.z = F32Zero)
                        /\ WordAt(RecordAt(b, s, c)) # 0 =>
                              /\ pt.x.range = pt.y.range /\ pt.y.range = pt.z.range
                              /\ EncodeDistance(pt.x.range) = WordAt(RecordAt(b, s, c))

\* Points of a packet in mode Last, the first record of which has no return.
C8_Witness ==
    /\ Decoded /\ PointsCalled /\ points.tag = "Some"
    /\ ByteAt(1246) = 56
    /\ WordAt(RecordAt(0, 0, 0)) = 0 /\ WordAt(RecordAt(0, 0, 1)) # 0

\* C9: for a Data packet in Dual mode, points() returns two points per
\* firing, 768 in all.
C9_DualReturnsPoints ==
    (Decoded /\ PointsCalled /\ is_data(packet.val)
        /\ packet.val.return_mode = "DualReturn") =>
        (points.tag = "Some" /\ Len(points.val) = 768)

\* The tag of the point of firing (b, s, c).
TagOf(b, s, c) == points.val[32 * b + 16 * s + c + 1].azimuth.tag

\* C10, as stated: only firing (0,0,0) is Measured, every other firing of
\* blocks 0..10 Interpolated, every firing of block 11 Extrapolated.
C10_OnlyFirstFiringMeasured ==
    (PointsCalled /\ points.tag = "Some") =>
        \A b \in 0..11, s \in 0..1, c \in 0..15 :
            TagOf(b, s, c) =
                IF b = 0 /\ s = 0 /\ c = 0 THEN "Measured"
                ELSE IF b < 11 THEN "Interpolated"
                ELSE "Extrapolated"

\* C10, amended: the first firing (sequence 0, channel 0) of every block,
\* block 11 included, is Measured; every other firing of blocks 0..10 is
\* Interpolated and every other firing of block 11 Extrapolated.
C10_BlockFirstFiringMeasured ==
    (PointsCalled /\ points.tag = "Some") =>
        \A b \in 0..11, s \in 0..1, c \in 0..15 :
            TagOf(b, s, c) =
                IF s = 0 /\ c = 0 THEN "Measured"
                ELSE IF b < 11 THEN "Interpolated"
                ELSE "Extrapolated"

\* Points whose block 11 starts with a Measured azimuth.
C10_Witness ==
    /\ PointsCalled /\ points.tag = "Some"
    /\ TagOf(11, 0, 0) = "Measured" /\ TagOf(11, 0, 1) = "Extrapolated"
    /\ TagOf(3, 0, 0) = "Measured" /\ TagOf(3, 1, 0) = "Interpolated"

\* Every block of the payload has a raw azimuth below 36000, that is an
\* azimuth in [0, 360).
AzimuthsInTurn ==
    \A b \in 0..11 : WordAt(42 + 100 * b + 2) < 36000

\* The azimuth points() predicted for firing (b, s, c).
PredictedAt(b, s, c) == points.val[32 * b + 16 * s + c + 1].azimuth.deg

\* p lies on the arc that runs from base, in the sense of rotation, to next:
\* its angular distance from base, modulo 360, is at most that of next.
OnArc(base, next, p) ==
    IF ~F32Lt(next, base)
    THEN ~F32Lt(p, base) /\ ~F32Lt(next, p)
    ELSE ~F32Lt(p, base) \/ ~F32Lt(next, p)

\* C11: for b < 11 and block azimuths in [0, 360), the azimuth predicted for
\* firing (b, s, c) is no further from azimuth(b), modulo 360, than
\* azimuth(b + 1) is, also when azimuth(b + 1) < azimuth(b).
C11_PredictedWithinStep ==
    (PointsCalled /\ points.tag = "Some" /\ AzimuthsInTurn) =>
        \A b \in 0..10, s \in 0..1, c \in 0..15 :
            OnArc(packet.val.data_blocks[b].azimuth,
                  packet.val.data_blocks[b + 1].azimuth,
                  PredictedAt(b, s, c))

\* C19: with the 12 block azimuths in [0, 360), the azimuth of every firing
\* is in [0, 360).
C19_PredictedInTurn ==
    (PointsCalled /\ points.tag = "Some" /\ AzimuthsInTurn) =>
        \A b \in 0..11, s \in 0..1, c \in 0..15 :
            /\ ~F32Lt(PredictedAt(b, s, c), F32Zero)
            /\ F32Lt(PredictedAt(b, s, c), F32FromInt(360))

\* C20: with the 12 block azimuths in [0, 360), the azimuth predicted for
\* the first firing (sequence 0, channel 0) of each block is the block's
\* stored azimuth, exactly.
C20_FirstFiringIsStored ==
    (PointsCalled /\ points.tag = "Some" /\ AzimuthsInTurn) =>
        \A b \in 0..11 : PredictedAt(b, 0, 0) = packet.val.data_blocks[b].azimuth

\* C12: the time of firing (s_index, c), s_index in 0..23, c in 0..15, is
\* the timestamp plus s_index * 55296 ns plus c * 2304 ns, to the nanosecond,
\* for every u32 microsecond timestamp.
C12_FiringTimeExact ==
    (args.fn = "firing_time" /\ ret # NotCalled) =>
        /\ ret.nanos \in 0..999999999
        /\ ret.secs - args.timestamp.secs \in 0..1
        /\ (ret.secs - args.timestamp.secs) * 1000000000
              + (ret.nanos - args.timestamp.nanos)
           = args.sequence_index * 55296 + args.data_point_index * 2304

\* The example of the manual: 45_231_878 us, sequence 23, channel 15 is
\* 45_233_184_368 ns.
C12_Witness ==
    /\ args.fn = "firing_time"
    /\ args.timestamp = [secs |-> 45, nanos |-> 231878000]
    /\ args.sequence_index = 23 /\ args.data_point_index = 15
    /\ ret = [secs |-> 45, nanos |-> 233184368]

\* The vertical angles of the manual, in firing order.
FiringOrderAngles ==
    <<-15, 1, -13, 3, -11, 5, -9, 7, -7, 9, -5, 11, -3, 13, -1, 15>>

\* The f32 of the angle of channel c.
TableAngle(c) ==
    IF FiringOrderAngles[c + 1] < 0
    THEN F32Neg(F32FromInt(-FiringOrderAngles[c + 1]))
    ELSE F32FromInt(FiringOrderAngles[c + 1])

\* C13: the vertical angle of channel c is c degrees for odd c and c - 15
\* for even c, that is the firing-order table; the 16 angles are pairwise
\* distinct; and the point of record (b, s, c) is built with the angle of
\* its own channel c.
C13_VerticalAngleOfChannel ==
    /\ \A c \in 0..15 :
          /\ vertical_angle(c) = TableAngle(c)
          /\ \A d \in 0..15 : c # d => vertical_angle(c) # vertical_angle(d)
    /\ (PointsCalled /\ points.tag = "Some") =>
          \A b \in 0..11, s \in 0..1, c \in 0..15 :
              WordAt(RecordAt(b, s, c)) # 0 =>
                  LET pt == points.val[32 * b + 16 * s + c + 1]
                  IN  /\ pt.z.factors = <<[fn |-> "sin", deg |-> TableAngle(c)]>>
                      /\ pt.x.factors[1] = [fn |-> "cos", deg |-> TableAngle(c)]
                      /\ pt.y.factors[1] = [fn |-> "cos", deg |-> TableAngle(c)]

\* Points of channels 1 and 2 of the first sequence, built with +1 and -13
\* degrees.
C13_Witness ==
    /\ PointsCalled /\ points.tag = "Some"
    /\ WordAt(RecordAt(0, 0, 1)) # 0 /\ WordAt(RecordAt(0, 0, 2)) # 0
    /\ points.val[2].z.factors[1].deg = F32FromInt(1)
    /\ points.val[3].z.factors[1].deg = F32Neg(F32FromInt(13))

\* A sentence as the $GPRMC rules of the spec read it.
FieldCount(str) == Cardinality({i \in 1..Len(str) : str[i] = 44}) + 1

StartsWithGprmc(str) ==
    /\ Len(str) >= 6
    /\ str[1] = 36 /\ str[2] = 71 /\ str[3] = 80
    /\ str[4] = 82 /\ str[5] = 77 /\ str[6] = 67
    /\ (Len(str) = 6 \/ str[7] = 44)

Stars(str) == {i \in 1..Len(str) : str[i] = 42}

LastStar(str) == CHOOSE p \in Stars(str) : \A q \in Stars(str) : q <= p

\* Bit j of the XOR of the bytes strictly between the '$' and position p:
\* the parity of the bytes that have the bit.
XorBit(str, p, j) ==
    Cardinality({i \in 2..(p - 1) : (str[i] \div (2 ^ j)) % 2 = 1}) % 2

XorBefore(str, p) ==
    XorBit(str, p, 0) + 2 * XorBit(str, p, 1) + 4 * XorBit(str, p, 2)
        + 8 * XorBit(str, p, 3) + 16 * XorBit(str, p, 4) + 32 * XorBit(str, p, 5)
        + 64 * XorBit(str, p, 6) + 128 * XorBit(str, p, 7)

HexChars == <<48, 49, 50, 51, 52, 53, 54, 55, 56, 57, 97, 98, 99, 100, 101, 102>>

\* The two lowercase hex digits of the XOR before position p.
HexXorBefore(str, p) ==
    <<HexChars[(XorBefore(str, p) \div 16) + 1],
      HexChars[(XorBefore(str, p) % 16) + 1]>>

PositionNewReturned == args.fn = "Position::new" /\ ret # NotCalled

PassedChecksum ==
    /\ ret # Err(Nmea("No ending star to delineate checksum"))
    /\ ret # Err(Nmea("Invalid checksum"))

\* C15: a 13-field $GPRMC sentence passes the checksum check exactly when
\* the two characters right after its '*' are the two lowercase hex digits of
\* the XOR of the bytes between the '$' and the '*'.
C15_ChecksumAfterStar ==
    (PositionNewReturned /\ FieldCount(args.nmea) = 13
        /\ StartsWithGprmc(args.nmea) /\ Cardinality(Stars(args.nmea)) = 1) =>
        (PassedChecksum <=>
            /\ LastStar(args.nmea) + 2 <= Len(args.nmea)
            /\ SubSeq(args.nmea, LastStar(args.nmea) + 1, LastStar(args.nmea) + 2)
                  = HexXorBefore(args.nmea, LastStar(args.nmea)))

\* C16: for a coordinate ddmm.mmmm with minutes in [0, 60), to_dd gives
\* dd + mm.mmmm / 60: the whole degrees of the result are dd.
C16_DegreesTruncated ==
    (args.fn = "to_dd" /\ ret # NotCalled /\ args.n % 1000000 < 600000) =>
        /\ ret.num \div ret.den = args.n \div 1000000
        /\ ret.den = 600000
        /\ ret.num = (args.n \div 1000000) * 600000 + (args.n % 1000000)

\* The capture delivered a payload at turn i and the payload decodes.
DecodesOk(i) ==
    /\ capture[i].tag = "Ok"
    /\ from_pcap_packet(capture[i].val).tag = "Ok"

\* The packets of the first n payloads delivered, in delivery order.
DecodedInOrder(n) == [i \in 1..n |-> from_pcap_packet(capture[i].val).val]

=============================================================================
